---- MODULE Spec2Model ----
(***************************************************************************)
(* Model of src/monitor.py (the script of lines 1-294: load_hashes,        *)
(* get_page_content, strip_html_tags, get_text_content_hash, save_content, *)
(* load_content, get_diff_summary, send_teams_alert, main).                *)
(*                                                                         *)
(* Text.  A Python str is modelled by the pieces str.split('\n') gives: a  *)
(* non-empty sequence of lines, a line being a sequence of one-character   *)
(* symbols.  "" is << <<>> >>, "a\n" is << <<"a">>, <<>> >>.               *)
(*                                                                         *)
(* Markup.  A fetched page is a sequence of lexemes: characters of text,   *)
(* complete tags <name value="v">, closing tags </name>, image tags        *)
(* <img src="s" alt="t">, and the comment delimiters <!-- and -->.  The    *)
(* regular expressions of strip_html_tags are applied to that sequence.    *)
(*                                                                         *)
(* Lines 295-509 of the file hold an earlier variant of the same functions *)
(* (the file is two variants of the script, one after the other); the      *)
(* model is of the first.                                                  *)
(***************************************************************************)
EXTENDS Integers, Sequences, FiniteSets, TLC

\* ------------------------------------------------------------------ bounds
MaxLines == 5       \* lines of old_content and new_content together
MaxLimit == 2       \* largest max_changes tried
MaxPageLen == 3     \* lexemes of a page given to strip_html_tags
MaxUrls == 2        \* entries of TARGET_URLS

\* ------------------------------------------------------- sequence helpers
Front(s) == SubSeq(s, 1, Len(s) - 1)
Last(s) == s[Len(s)]
Min(S) == CHOOSE x \in S : \A y \in S : x <= y
Max(S) == CHOOSE x \in S : \A y \in S : x >= y
Range(s) == {s[i] : i \in 1..Len(s)}

RECURSIVE Flatten(_)
Flatten(ss) == IF ss = <<>> THEN <<>> ELSE Head(ss) \o Flatten(Tail(ss))

StartsWith(s, p) == Len(s) >= Len(p) /\ SubSeq(s, 1, Len(p)) = p

\* ----------------------------------------------------------- Python str
\* characters str.strip() removes that the model's alphabet can hold
Whitespace == {" ", "\t", "\r"}

RECURSIVE LStrip(_)
LStrip(l) == IF l # <<>> /\ Head(l) \in Whitespace THEN LStrip(Tail(l)) ELSE l

RECURSIVE RStrip(_)
RStrip(l) == IF l # <<>> /\ Last(l) \in Whitespace THEN RStrip(Front(l)) ELSE l

\* str.strip() of a line
Strip(l) == RStrip(LStrip(l))

\* '\n'.join(lines), for lines that hold no newline
Join(lines) == IF lines = <<>> THEN << <<>> >> ELSE lines

\* str.splitlines(): the pieces, without the empty piece after a final newline
SplitLines(str) == IF Last(str) = <<>> THEN Front(str) ELSE str

RECURSIVE Split(_)
\* text.split('\n') of a sequence of characters
Split(t) ==
    IF "\n" \notin Range(t) THEN <<t>>
    ELSE LET i == Min({j \in 1..Len(t) : t[j] = "\n"})
         IN  <<SubSeq(t, 1, i - 1)>> \o Split(SubSeq(t, i + 1, Len(t)))

\* hashlib.md5(text.encode('utf-8')).hexdigest(): a digest without collisions
Md5(str) == <<"md5", str>>

\* ------------------------------------------------------------- markup
Ch(c) == [k |-> "ch", a |-> c, b |-> ""]             \* one character of text
Tag(n, v) == [k |-> "tag", a |-> n, b |-> v]         \* <n value="v">, <n> if v = ""
CloseTag(n) == [k |-> "close", a |-> n, b |-> ""]    \* </n>
Img(src, alt) == [k |-> "img", a |-> src, b |-> alt] \* <img src="src" alt="alt">
CommentOpen == [k |-> "copen", a |-> "", b |-> ""]   \* <!--
CommentClose == [k |-> "cclose", a |-> "", b |-> ""] \* -->

\* line 113: the heading of the image section, "--- <image list> ---"
ImageHeading == <<"-", "-", "-", " ", "image list", " ", "-", "-", "-">>

\* line 68: f"[IMAGE: {src}]" + (f" (alt: {alt})" if alt else "")
ImageEntry(src, alt) ==
    <<"[IMAGE: ", src, "]">> \o (IF alt # "" THEN <<" (alt: ", alt, ")">> ELSE <<>>)

RECURSIVE ExtractImages(_)
\* lines 57-68: every <img ...> of the markup as fetched; one without src is skipped
ExtractImages(html) ==
    IF html = <<>> THEN <<>>
    ELSE (IF Head(html).k = "img" /\ Head(html).a # ""
          THEN <<ImageEntry(Head(html).a, Head(html).b)>> ELSE <<>>)
         \o ExtractImages(Tail(html))

RECURSIVE RemoveElement(_, _, _)
\* lines 71-72: re.sub(r'<name[^>]*>.*?</name>', '', html) from lexeme i on:
\* an opening tag is removed with everything up to the first closing tag after it
RemoveElement(html, name, i) ==
    IF i > Len(html) THEN <<>>
    ELSE LET closes == {j \in (i + 1)..Len(html) : html[j] = CloseTag(name)}
         IN  IF html[i].k = "tag" /\ html[i].a = name /\ closes # {}
             THEN RemoveElement(html, name, Min(closes) + 1)
             ELSE <<html[i]>> \o RemoveElement(html, name, i + 1)

RECURSIVE RemoveComments(_, _)
\* line 74: re.sub(r'<!--.*?-->', '', html)
RemoveComments(html, i) ==
    IF i > Len(html) THEN <<>>
    ELSE LET closes == {j \in (i + 1)..Len(html) : html[j].k = "cclose"}
         IN  IF html[i].k = "copen" /\ closes # {}
             THEN RemoveComments(html, Min(closes) + 1)
             ELSE <<html[i]>> \o RemoveComments(html, i + 1)

\* the characters of a lexeme that is not removed as a tag
Chars(x) ==
    CASE x.k = "copen" -> <<"<", "!", "-", "-">>
      [] x.k = "cclose" -> <<"-", "-", ">">>
      [] OTHER -> <<x.a>>

RECURSIVE ReplaceTags(_, _)
\* line 76: re.sub(r'<[^>]+>', '\n', html): a tag becomes a newline; an unclosed
\* <!-- is a tag that runs to the next '>' of the markup
ReplaceTags(html, i) ==
    IF i > Len(html) THEN <<>>
    ELSE LET gts == {j \in (i + 1)..Len(html) :
                        html[j].k \in {"tag", "close", "img", "cclose"}}
         IN  IF html[i].k \in {"tag", "close", "img"}
             THEN <<"\n">> \o ReplaceTags(html, i + 1)
             ELSE IF html[i].k = "copen" /\ gts # {}
             THEN <<"\n">> \o ReplaceTags(html, Min(gts) + 1)
             ELSE Chars(html[i]) \o ReplaceTags(html, i + 1)

\* lines 78-79: the six named entities
DecodeChar(c) ==
    CASE c = "&nbsp;" -> " "
      [] c = "&amp;" -> "&"
      [] c = "&lt;" -> "<"
      [] c = "&gt;" -> ">"
      [] c = "&quot;" -> "\""
      [] c = "&apos;" -> "'"
      [] OTHER -> c

DecodeEntities(t) == [i \in 1..Len(t) |-> DecodeChar(t[i])]

RECURSIVE SkipBlanks(_)
SkipBlanks(t) == IF t # <<>> /\ Head(t) \in {" ", "\t"} THEN SkipBlanks(Tail(t)) ELSE t

RECURSIVE CollapseBlanks(_)
\* line 83: re.sub(r'[ \t]+', ' ', text)
CollapseBlanks(t) ==
    IF t = <<>> THEN <<>>
    ELSE IF Head(t) \in {" ", "\t"} THEN <<" ">> \o CollapseBlanks(SkipBlanks(t))
    ELSE <<Head(t)>> \o CollapseBlanks(Tail(t))

\* lines 85-87: split, strip every line, drop the empty ones
TrimmedLines(t) ==
    LET pieces == Split(t)
        stripped == [i \in 1..Len(pieces) |-> Strip(pieces[i])]
    IN  SelectSeq(stripped, LAMBDA l : l # <<>>)

LongLine == 100     \* line 93: len(line) > 100
\* line 95: the sentence terminators (the full-width three by their code points)
Terminators == {".", "!", "?", "U+3002", "U+FF01", "U+FF1F"}

RECURSIVE Sentences(_, _)
\* lines 95-106: re.split keeps each terminator; a chunk is closed at every
\* terminator (and, past 80 characters, at the end of the line, where it is
\* closed anyway), stripped, and kept unless empty
Sentences(line, current) ==
    LET flush(c) == IF Strip(c) # <<>> THEN <<Strip(c)>> ELSE <<>>
    IN  IF line = <<>> THEN flush(current)
        ELSE IF Head(line) \in Terminators
        THEN flush(Append(current, Head(line))) \o Sentences(Tail(line), <<>>)
        ELSE Sentences(Tail(line), Append(current, Head(line)))

\* lines 90-108
Rewrap(lines) ==
    Flatten([i \in 1..Len(lines) |->
                IF Len(lines[i]) > LongLine THEN Sentences(lines[i], <<>>)
                ELSE <<lines[i]>>])

\* lines 54-116
strip_html_tags(html) ==
    LET images == ExtractImages(html)
        h1 == RemoveElement(html, "script", 1)
        h2 == RemoveElement(h1, "style", 1)
        h3 == RemoveComments(h2, 1)
        text == CollapseBlanks(DecodeEntities(ReplaceTags(h3, 1)))
        normalized_lines == Rewrap(TrimmedLines(text))
    IN  Join(normalized_lines
             \o (IF images # <<>> THEN << <<>>, ImageHeading >> \o images ELSE <<>>))

\* lines 119-122
get_text_content_hash(html) == Md5(strip_html_tags(html))

\* ------------------------------------------------------------- difflib
RECURSIVE RunLen(_, _, _, _, _, _)
\* the length of the common run of a[i..ahi] and b[j..bhi] from their first lines
RunLen(a, b, i, j, ahi, bhi) ==
    IF i > ahi \/ j > bhi THEN 0
    ELSE IF a[i] # b[j] THEN 0
    ELSE 1 + RunLen(a, b, i + 1, j + 1, ahi, bhi)

\* SequenceMatcher.find_longest_match (no junk): the longest block of a[alo..ahi]
\* and b[blo..bhi]; of the longest, the one that starts earliest in a, then in b
find_longest_match(a, b, alo, ahi, blo, bhi) ==
    LET starts == (alo..ahi) \X (blo..bhi)
        best == Max({RunLen(a, b, p[1], p[2], ahi, bhi) : p \in starts} \cup {0})
        cands == {p \in starts : RunLen(a, b, p[1], p[2], ahi, bhi) = best}
        i == Min({p[1] : p \in cands})
        j == Min({p[2] : p \in {q \in cands : q[1] = i}})
    IN  IF best = 0 THEN <<alo, blo, 0>> ELSE <<i, j, best>>

RECURSIVE matching_blocks(_, _, _, _, _, _)
\* SequenceMatcher.get_matching_blocks: the longest block, then the same to its
\* left and to its right
matching_blocks(a, b, alo, ahi, blo, bhi) ==
    IF alo > ahi \/ blo > bhi THEN {}
    ELSE LET m == find_longest_match(a, b, alo, ahi, blo, bhi)
         IN  IF m[3] = 0 THEN {}
             ELSE {m} \cup matching_blocks(a, b, alo, m[1] - 1, blo, m[2] - 1)
                      \cup matching_blocks(a, b, m[1] + m[3], ahi, m[2] + m[3], bhi)

FromFileLine == <<"-", "-", "-", " ">>      \* '--- '
ToFileLine == <<"+", "+", "+", " ">>        \* '+++ '
HunkLine == <<"@", "@", " ", "range", " ", "@", "@">>   \* '@@ -i,n +j,m @@'

\* one hunk of unified_diff(n=0): the lines a[i1..i2] with '-', then b[j1..j2] with '+'
Hunk(a, b, i1, i2, j1, j2) ==
    IF i1 > i2 /\ j1 > j2 THEN <<>>
    ELSE <<HunkLine>>
         \o [x \in 1..(i2 - i1 + 1) |-> <<"-">> \o a[i1 + x - 1]]
         \o [x \in 1..(j2 - j1 + 1) |-> <<"+">> \o b[j1 + x - 1]]

RECURSIVE Hunks(_, _, _, _, _)
\* the hunks between the matching blocks, in order; i, j: the first lines not yet
\* covered
Hunks(a, b, blocks, i, j) ==
    IF blocks = {} THEN Hunk(a, b, i, Len(a), j, Len(b))
    ELSE LET m == CHOOSE x \in blocks : \A y \in blocks : x[1] <= y[1]
         IN  Hunk(a, b, i, m[1] - 1, j, m[2] - 1)
             \o Hunks(a, b, blocks \ {m}, m[1] + m[3], m[2] + m[3])

\* lines 153-158: list(difflib.unified_diff(old_lines, new_lines, lineterm='', n=0))
unified_diff(a, b) ==
    LET hunks == Hunks(a, b, matching_blocks(a, b, 1, Len(a), 1, Len(b)), 1, 1)
    IN  IF hunks = <<>> THEN <<>> ELSE <<FromFileLine, ToFileLine>> \o hunks

\* ---------------------------------------------------- get_diff_summary
\* The summary is the list `result` of lines 180-198, one record per rendered
\* line: a section header, a bullet, the "... N more lines" line, or the empty
\* separator line.
NoChange == [kind |-> "nochange", lines |-> <<>>]               \* lines 151, 161, 177
PriorUnavailable == [kind |-> "unavailable", lines |-> <<>>]    \* line 265
Summary(lines) == [kind |-> "summary", lines |-> lines]
HeaderLine(sec) == [kind |-> "header", sec |-> sec, text |-> <<>>, n |-> 0]
BulletLine(sec, l) == [kind |-> "bullet", sec |-> sec, text |-> l, n |-> 0]
OmittedLine(sec, k) == [kind |-> "omitted", sec |-> sec, text |-> <<>>, n |-> k]
SeparatorLine == [kind |-> "separator", sec |-> "", text |-> <<>>, n |-> 0]

\* a Python slice s[:n]
SliceTo(s, n) ==
    IF n >= 0 THEN SubSeq(s, 1, IF n < Len(s) THEN n ELSE Len(s))
    ELSE SubSeq(s, 1, IF Len(s) + n > 0 THEN Len(s) + n ELSE 0)

\* lines 167-173: the lines of the diff with the given sign, without the sign,
\* stripped; a line that starts with '---', '+++' or '@@' is passed over
ChangedLines(diff, sign) ==
    LET body == SubSeq(diff, 3, Len(diff))
        meta(l) == \/ StartsWith(l, <<"-", "-", "-">>)
                   \/ StartsWith(l, <<"+", "+", "+">>)
                   \/ StartsWith(l, <<"@", "@">>)
        kept == SelectSeq(body, LAMBDA l : ~meta(l) /\ Head(l) = sign)
    IN  [i \in 1..Len(kept) |-> Strip(Tail(kept[i]))]

\* lines 182-188 and 190-198: the header, a bullet for every non-empty entry
\* among the first max_changes, and the count of the entries beyond
RenderSection(sec, entries, max_changes) ==
    LET shown == SelectSeq(SliceTo(entries, max_changes), LAMBDA l : l # <<>>)
    IN  <<HeaderLine(sec)>>
        \o [i \in 1..Len(shown) |-> BulletLine(sec, shown[i])]
        \o (IF Len(entries) > max_changes
            THEN <<OmittedLine(sec, Len(entries) - max_changes)>> ELSE <<>>)

\* lines 146-173: the lists `removed` and `added`; `returned` when one of the
\* returns of lines 151 and 161 is taken before they are built
ExtractChanges(old, new) ==
    LET old_lines == SplitLines(old)
        new_lines == SplitLines(new)
        diff == unified_diff(old_lines, new_lines)
    IN  IF old_lines = new_lines \/ Len(diff) <= 2
        THEN [returned |-> TRUE, removed |-> <<>>, added |-> <<>>]
        ELSE [returned |-> FALSE,
              removed |-> ChangedLines(diff, "-"),
              added |-> ChangedLines(diff, "+")]

\* lines 176-200
RenderChanges(rem, add, limit) ==
    LET result ==
            (IF rem # <<>> THEN RenderSection("removed", rem, limit) ELSE <<>>)
            \o (IF add # <<>>
                THEN (IF rem # <<>> THEN <<SeparatorLine>> ELSE <<>>)
                     \o RenderSection("added", add, limit)
                ELSE <<>>)
    IN  IF add = <<>> /\ rem = <<>> THEN NoChange
        ELSE IF result # <<>> THEN Summary(result) ELSE NoChange

\* lines 144-200
get_diff_summary(old, new, limit) ==
    LET c == ExtractChanges(old, new)
    IN  IF c.returned THEN NoChange ELSE RenderChanges(c.removed, c.added, limit)

\* ------------------------------------------------------------ the state
VARIABLES
    hashFile,       \* hashes.json: [state, map]
    cache,          \* content_cache/: file name -> [exists, html]
    pc,             \* "idle" (no run), "loop" (lines 246-281), "notify" (lines 285-288)
    urls,           \* TARGET_URLS of the run
    idx,            \* position of the for loop in urls
    hashes,         \* main's dict `hashes`
    changed,        \* main's list `changed`
    current_html,   \* the result of the latest get_page_content of the run
    printed,        \* the latest tag printed for a URL: [tag, url]
    alert,          \* the reports posted to the webhook by the latest run
    startFile,      \* hashes.json as it was when the run started
    startCache,     \* content_cache/ as it was when the run started
    cur,            \* per URL, the content fetched in this run
    prev,           \* per URL, the content fetched in the previous completed run
    old_content,    \* get_diff_summary alone: its arguments,
    new_content,
    max_changes,
    added,          \*   its lists `added` and `removed`,
    removed,
    summary,        \*   its return value,
    dpc,            \*   and its position: "start", "render", "done", or "off"
    markup,         \* strip_html_tags alone: a page with a place for a volatile token,
    texts,          \*   the normalized texts of the page for the two token values,
    npc             \*   and its position: "start", "done", or "off"

mainVars == <<hashFile, cache, pc, urls, idx, hashes, changed, current_html, printed,
              alert, startFile, startCache, cur, prev>>
diffVars == <<old_content, new_content, max_changes, added, removed, summary, dpc>>
normVars == <<markup, texts, npc>>
vars == <<mainVars, diffVars, normVars>>

\* ------------------------------------------------------- pages and stores
URLs == {"u1", "u2"}
UrlLists == UNION {[1..n -> URLs] : n \in 0..MaxUrls}

\* the pages a server sends in the runs of main: "a", "a" with a hidden form
\* field, and "b" with an image
RunPages ==
    { <<Ch("a")>>,
      <<Ch("a"), Tag("input", "t1")>>,
      <<Ch("b"), Img("s.png", "")>> }

None == <<>>                                    \* no digest
EmptyMap == [u \in URLs |-> None]               \* the dict {}
NoFile == [exists |-> FALSE, html |-> <<>>]
FileOf(html) == [exists |-> TRUE, html |-> html]

\* lines 128-129 and 136-137: the cache file of a URL
FileName(url) == <<Md5(url), ".txt">>
FileNames == {FileName(u) : u \in URLs}

\* lines 27-32: a missing file gives {}, json.load raises on a malformed one
load_hashes(file) ==
    [raised |-> file.state = "malformed",
     dict |-> IF file.state = "ok" THEN file.map ELSE EmptyMap]

\* lines 35-38
save_hashes(dict) == [state |-> "ok", map |-> dict]

\* a save_content that keeps a cache file that is already there
save_content_keeps(files, url, content) ==
    IF files[FileName(url)].exists THEN files
    ELSE [files EXCEPT ![FileName(url)] = FileOf(content)]

\* lines 125-131
save_content(files, url, content) == [files EXCEPT ![FileName(url)] = FileOf(content)]

\* lines 134-141
load_content(files, url) == files[FileName(url)]

\* a main without the branch of line 255
Classify_no_new(prev_hash, current_hash) ==
    IF current_hash # prev_hash THEN "CHANGED" ELSE "OK"

\* a main whose line 260 compares the digest with something else than the stored one
Classify_always_changed(prev_hash, current_hash) ==
    IF prev_hash = None THEN "NEW" ELSE "CHANGED"

\* lines 253-281: the branch taken for a URL
Classify(prev_hash, current_hash) ==
    IF prev_hash = None THEN "NEW"
    ELSE IF current_hash # prev_hash THEN "CHANGED"
    ELSE "OK"

DiffLimit == 20     \* line 271: max_changes=20

\* a main that diffs against whatever load_content gave, None read as ""
TextDiff_unguarded(old_html, html) ==
    get_diff_summary(strip_html_tags(old_html.html), strip_html_tags(html), DiffLimit)

\* lines 264-271: `if old_html:` is false for a missing file and for an empty one
TextDiff(old_html, html) ==
    IF old_html.exists /\ old_html.html # <<>>
    THEN get_diff_summary(strip_html_tags(old_html.html), strip_html_tags(html), DiffLimit)
    ELSE PriorUnavailable

NoPage == [n |-> "none", html |-> <<>>]
Seen(c, html) ==
    IF c.n = "none" THEN [n |-> "one", html |-> html]
    ELSE IF c.n = "one" /\ c.html = html THEN c
    ELSE [n |-> "mixed", html |-> <<>>]
NoneSeen == [u \in URLs |-> NoPage]
NotFetched == [ok |-> FALSE, html |-> <<>>]
NoLine == [tag |-> "", url |-> ""]

DiffOff ==
    /\ old_content = << <<>> >> /\ new_content = << <<>> >> /\ max_changes = 0
    /\ added = <<>> /\ removed = <<>> /\ summary = NoChange /\ dpc = "off"
NormOff == markup = <<>> /\ texts = <<>> /\ npc = "off"

MainInit ==
    /\ hashFile = [state |-> "missing", map |-> EmptyMap]
    /\ cache = [f \in FileNames |-> NoFile]
    /\ pc = "idle"
    /\ urls = <<>>
    /\ idx = 0
    /\ hashes = EmptyMap
    /\ changed = <<>>
    /\ current_html = NotFetched
    /\ printed = NoLine
    /\ alert = <<>>
    /\ startFile = [state |-> "missing", map |-> EmptyMap]
    /\ startCache = [f \in FileNames |-> NoFile]
    /\ cur = NoneSeen
    /\ prev = NoneSeen

Init == MainInit /\ DiffOff /\ NormOff

\* the process is gone: its memory with it
Gone ==
    /\ pc' = "idle"
    /\ urls' = <<>>
    /\ idx' = 0
    /\ hashes' = EmptyMap
    /\ changed' = <<>>
    /\ current_html' = NotFetched
    /\ printed' = NoLine
    /\ startFile' = [state |-> "missing", map |-> EmptyMap]
    /\ startCache' = [f \in FileNames |-> NoFile]
    /\ cur' = NoneSeen
    /\ UNCHANGED <<diffVars, normVars>>

\* ------------------------------------------------------------ main()
\* lines 241-244, with json.load raising on a malformed hashes.json
StartRun ==
    /\ pc = "idle"
    /\ alert' = <<>>
    /\ IF load_hashes(hashFile).raised
       THEN Gone /\ prev' = NoneSeen
       ELSE /\ \E list \in UrlLists : urls' = list
            /\ hashes' = load_hashes(hashFile).dict
            /\ changed' = <<>>
            /\ idx' = 1
            /\ pc' = "loop"
            /\ current_html' = NotFetched
            /\ printed' = NoLine
            /\ startFile' = hashFile
            /\ startCache' = cache
            /\ cur' = NoneSeen
            /\ prev' = prev
            /\ UNCHANGED <<diffVars, normVars>>
    /\ UNCHANGED <<hashFile, cache>>

\* a main that forgets the digest of a URL it could not fetch
FetchFailed_forgets ==
    /\ pc = "loop" /\ idx <= Len(urls)
    /\ current_html' = NotFetched
    /\ printed' = [tag |-> "ERROR", url |-> urls[idx]]
    /\ idx' = idx + 1
    /\ hashes' = [hashes EXCEPT ![urls[idx]] = None]
    /\ UNCHANGED <<hashFile, cache, pc, urls, changed, alert,
                   startFile, startCache, cur, prev, diffVars, normVars>>

\* lines 247-249 with lines 49-51: the fetch fails, the URL is passed over
FetchFailed ==
    /\ pc = "loop" /\ idx <= Len(urls)
    /\ current_html' = NotFetched
    /\ printed' = [tag |-> "ERROR", url |-> urls[idx]]
    /\ idx' = idx + 1
    /\ UNCHANGED <<hashFile, cache, pc, urls, hashes, changed, alert,
                   startFile, startCache, cur, prev, diffVars, normVars>>

\* lines 247-281: the fetch gives html
ProcessUrl(html) ==
    /\ pc = "loop" /\ idx <= Len(urls)
    /\ LET url == urls[idx]
           current_hash == get_text_content_hash(html)
           prev_hash == hashes[url]
           class == Classify(prev_hash, current_hash)
       IN  /\ current_html' = [ok |-> TRUE, html |-> html]
           /\ printed' = [tag |-> class, url |-> url]
           /\ cur' = [cur EXCEPT ![url] = Seen(cur[url], html)]
           /\ IF class = "NEW"
              THEN /\ hashes' = [hashes EXCEPT ![url] = current_hash]
                   /\ cache' = save_content(cache, url, html)
                   /\ changed' = changed
              ELSE IF class = "CHANGED"
              THEN /\ changed' = Append(changed,
                          [url |-> url,
                           text_diff |-> TextDiff(load_content(cache, url), html)])
                   /\ hashes' = [hashes EXCEPT ![url] = current_hash]
                   /\ cache' = save_content(cache, url, html)
              ELSE UNCHANGED <<hashes, cache, changed>>
    /\ idx' = idx + 1
    /\ UNCHANGED <<hashFile, pc, urls, alert, startFile, startCache, prev,
                   diffVars, normVars>>

\* line 283
SaveHashes ==
    /\ pc = "loop" /\ idx > Len(urls)
    /\ hashFile' = save_hashes(hashes)
    /\ pc' = "notify"
    /\ UNCHANGED <<cache, urls, idx, hashes, changed, current_html, printed, alert,
                   startFile, startCache, cur, prev, diffVars, normVars>>

\* lines 285-290: the alert is posted when there are reports; a failure of the
\* post is printed and changes nothing
Notify ==
    /\ pc = "notify"
    /\ alert' = changed
    /\ prev' = cur
    /\ Gone
    /\ UNCHANGED <<hashFile, cache>>

\* the process is killed inside the loop, or by an exception of save_content
Crash ==
    /\ pc = "loop"
    /\ Gone
    /\ prev' = NoneSeen
    /\ UNCHANGED <<hashFile, cache, alert>>

\* the process is killed inside save_hashes: open(HASH_FILE, "w") has truncated
\* the file and json.dump has not finished
CrashInSave ==
    /\ pc = "loop" /\ idx > Len(urls)
    /\ hashFile' = [state |-> "malformed", map |-> EmptyMap]
    /\ Gone
    /\ prev' = NoneSeen
    /\ UNCHANGED <<cache, alert>>

\* between two runs a cache file is deleted from outside
EvictCache(url) ==
    /\ pc = "idle"
    /\ cache[FileName(url)].exists
    /\ cache' = [cache EXCEPT ![FileName(url)] = NoFile]
    /\ UNCHANGED <<hashFile, pc, urls, idx, hashes, changed, current_html, printed,
                   alert, startFile, startCache, cur, prev, diffVars, normVars>>

Next ==
    \/ StartRun
    \/ FetchFailed
    \/ \E html \in RunPages : ProcessUrl(html)
    \/ SaveHashes
    \/ Notify
    \/ Crash
    \/ CrashInSave
    \/ \E url \in URLs : EvictCache(url)

Spec == Init /\ [][Next]_vars

\* ---------------------------------------------- get_diff_summary alone
\* the lines of the texts given to get_diff_summary: an empty line, a line of
\* blanks, "a", "--a" and "++a"
LineAlphabet == {<<>>, <<" ">>, <<"a">>, <<"-", "-", "a">>, <<"+", "+", "a">>}
Strs(n) == UNION {[1..k -> LineAlphabet] : k \in 1..n}
Limits == (0 - 1)..MaxLimit

MainOff == MainInit

DiffInit ==
    /\ MainOff /\ NormOff
    /\ old_content \in Strs(MaxLines - 1)
    /\ new_content \in Strs(MaxLines - Len(old_content))
    /\ max_changes = 0
    /\ added = <<>> /\ removed = <<>> /\ summary = NoChange
    /\ dpc = "start"

\* lines 146-173
Extract ==
    /\ dpc = "start"
    /\ LET c == ExtractChanges(old_content, new_content)
       IN  /\ removed' = c.removed
           /\ added' = c.added
           /\ dpc' = IF c.returned THEN "done" ELSE "render"
    /\ UNCHANGED <<old_content, new_content, max_changes, summary, mainVars, normVars>>

\* lines 176-200, for the max_changes the caller gave; the lines before do not
\* read it
Render(limit) ==
    /\ dpc = "render"
    /\ max_changes' = limit
    /\ summary' = RenderChanges(removed, added, limit)
    /\ dpc' = "done"
    /\ UNCHANGED <<old_content, new_content, added, removed, mainVars, normVars>>

DiffNext == Extract \/ \E limit \in Limits : Render(limit)

SpecDiff == DiffInit /\ [][DiffNext]_vars

\* ----------------------------------------------- strip_html_tags alone
\* a page with a place, "TOK", for the value of a volatile token: in the text, in
\* an attribute of a tag, in the source or the alt text of an image; inside a
\* script or a comment when the lexemes around it make one
TemplateLexemes ==
    { Ch("a"), Ch(" "), Ch("&nbsp;"), Ch("TOK"),
      Tag("p", ""), Tag("input", "TOK"),
      Tag("script", ""), CloseTag("script"),
      CommentOpen, CommentClose,
      Img("s.png", ""), Img("TOK", ""), Img("s.png", "TOK") }
Templates == UNION {[1..k -> TemplateLexemes] : k \in 0..MaxPageLen}
TokenValues == <<"t1", "t2">>

\* the page with the token's value in its place
WithToken(page, v) ==
    [i \in 1..Len(page) |->
        [k |-> page[i].k,
         a |-> IF page[i].a = "TOK" THEN v ELSE page[i].a,
         b |-> IF page[i].b = "TOK" THEN v ELSE page[i].b]]

NormInit ==
    /\ MainOff /\ DiffOff
    /\ markup \in Templates
    /\ texts = <<>>
    /\ npc = "start"

Normalize ==
    /\ npc = "start"
    /\ texts' = [i \in 1..2 |-> strip_html_tags(WithToken(markup, TokenValues[i]))]
    /\ npc' = "done"
    /\ UNCHANGED <<markup, mainVars, diffVars>>

NormNext == Normalize

SpecNorm == NormInit /\ [][NormNext]_vars

\* ------------------------------------------- runs with nothing going wrong
\* no crash, no deletion of a cache file
CleanNext ==
    \/ StartRun
    \/ FetchFailed
    \/ \E html \in RunPages : ProcessUrl(html)
    \/ SaveHashes
    \/ Notify

SpecClean == Init /\ [][CleanNext]_vars

\* ================================================================ claims
ReportsFor(u) == {i \in 1..Len(changed) : changed[i].url = u}
\* the step of the loop that handled a fetched page, and the one of a failed fetch
FetchedStep == pc = "loop" /\ pc' = "loop" /\ idx' = idx + 1 /\ current_html'.ok
FailedStep == pc = "loop" /\ pc' = "loop" /\ idx' = idx + 1 /\ ~current_html'.ok

\* C1: a run that follows a completed run and is served, for a URL, the content
\* the completed run was served for it, adds no report for that URL; when that
\* is so for every URL it fetches, `changed` stays empty and nothing is posted.
C1_Idempotence ==
    /\ [](pc \in {"loop", "notify"} =>
            \A u \in URLs :
                (prev[u].n = "one" /\ cur[u] \in {NoPage, prev[u]})
                    => ReportsFor(u) = {})
    /\ [][(pc = "notify" /\ \A u \in URLs :
                cur[u].n # "none" => (prev[u].n = "one" /\ cur[u] = prev[u]))
            => (changed = <<>> /\ alert' = <<>>)]_vars

\* a second run has fetched, for both URLs, what the run before it fetched
C1_Witness ==
    /\ pc = "notify"
    /\ \A u \in URLs : prev[u].n = "one" /\ cur[u] = prev[u]
    /\ changed = <<>>

\* C2: a page fetched for a URL that has no digest in `hashes` is tagged NEW:
\* no report is added, and the digest and the content of the page are recorded.
C2_NewUrl ==
    [][(FetchedStep /\ hashes[urls[idx]] = None) =>
            LET u == urls[idx]
                html == current_html'.html
            IN  /\ printed' = [tag |-> "NEW", url |-> u]
                /\ changed' = changed
                /\ hashes' = [hashes EXCEPT ![u] = get_text_content_hash(html)]
                /\ cache' = [cache EXCEPT ![FileName(u)] = FileOf(html)]]_vars

\* in a run that loaded digests, a URL without one has been fetched and recorded
C2_Witness ==
    /\ pc = "loop"
    /\ startFile.state = "ok"
    /\ printed.tag = "NEW"
    /\ startFile.map[printed.url] = None
    /\ hashes[printed.url] = get_text_content_hash(current_html.html)
    /\ cache[FileName(printed.url)] = FileOf(current_html.html)
    /\ ReportsFor(printed.url) = {}

\* C3: a failed fetch changes neither `hashes`, nor the cache, nor `changed`; for
\* a URL that no fetch of the run succeeded for, hashes.json holds at the end of
\* the run the digest it held at the start, the cache file is the one of the
\* start, and there is no report.
C3_FetchFailed ==
    /\ [](pc = "notify" =>
            \A u \in URLs :
                cur[u].n = "none" =>
                    /\ hashFile.map[u] = load_hashes(startFile).dict[u]
                    /\ cache[FileName(u)] = startCache[FileName(u)]
                    /\ ReportsFor(u) = {})
    /\ [][FailedStep =>
            /\ hashes' = hashes
            /\ cache' = cache
            /\ hashFile' = hashFile
            /\ changed' = changed]_vars

\* a run ends in which a URL that has a digest and a cache file was not fetched,
\* while another URL was found changed
C3_Witness ==
    /\ pc = "notify"
    /\ \E u \in Range(urls) :
        /\ cur[u].n = "none"
        /\ hashFile.map[u] # None
        /\ cache[FileName(u)].exists
    /\ changed # <<>>

\* C4: hashes.json and the cache are written once, after the loop: a run that is
\* killed before save_hashes leaves both as they were when it started.
C4_CrashSafety ==
    [][(pc = "loop" /\ pc' = "idle" /\ hashFile' = hashFile) =>
            (hashFile' = startFile /\ cache' = startCache)]_vars

\* C5: a page whose digest differs from the stored one, for a URL whose cache
\* file is missing, gets a report with the "prior content unavailable" text; the
\* run goes on, and the digest and the content of the page are recorded.
C5_MissingCache ==
    [][(/\ FetchedStep
        /\ hashes[urls[idx]] # None
        /\ hashes[urls[idx]] # get_text_content_hash(current_html'.html)
        /\ ~cache[FileName(urls[idx])].exists) =>
            LET u == urls[idx]
                html == current_html'.html
            IN  /\ changed' = Append(changed, [url |-> u, text_diff |-> PriorUnavailable])
                /\ hashes' = [hashes EXCEPT ![u] = get_text_content_hash(html)]
                /\ cache' = [cache EXCEPT ![FileName(u)] = FileOf(html)]]_vars

\* the latest page was found changed with no cache file to diff against
C5_Witness ==
    /\ pc = "loop"
    /\ printed.tag = "CHANGED"
    /\ ~startCache[FileName(printed.url)].exists
    /\ changed # <<>>
    /\ Last(changed) = [url |-> printed.url, text_diff |-> PriorUnavailable]
    /\ hashes[printed.url] = get_text_content_hash(current_html.html)
    /\ cache[FileName(printed.url)] = FileOf(current_html.html)

\* C6: two pages that differ only in the value of a volatile token have the same
\* digest, wherever the token is.
C6_Redaction == npc = "done" => Md5(texts[1]) = Md5(texts[2])

\* the sections of a summary
SectionOf(sec) == SelectSeq(summary.lines, LAMBDA r : r.sec = sec)
BulletsOf(sec) == SelectSeq(summary.lines, LAMBDA r : r.sec = sec /\ r.kind = "bullet")
OmittedOf(sec) == SelectSeq(summary.lines, LAMBDA r : r.sec = sec /\ r.kind = "omitted")
EntriesOf(sec) == IF sec = "removed" THEN removed ELSE added
NonBlank(entries) == SelectSeq(entries, LAMBDA l : l # <<>>)
Sections == {"removed", "added"}

\* C7: for a limit of 0 or more, a section has at most `limit` bullets and one
\* trailing "omitted" line exactly when its list is longer than `limit`, and that
\* line gives the number of lines of the section that were not rendered (of all
\* its lines, or of its non-blank ones).
C7_Truncation ==
    (dpc = "done" /\ summary.kind = "summary" /\ max_changes >= 0) =>
        \A sec \in Sections :
            /\ Len(BulletsOf(sec)) <= max_changes
            /\ IF Len(EntriesOf(sec)) > max_changes
               THEN /\ Len(OmittedOf(sec)) = 1
                    /\ Last(SectionOf(sec)).kind = "omitted"
                    /\ OmittedOf(sec)[1].n
                          \in {Len(EntriesOf(sec)) - Len(BulletsOf(sec)),
                               Len(NonBlank(EntriesOf(sec))) - Len(BulletsOf(sec))}
               ELSE OmittedOf(sec) = <<>>

\* C8: when every added and every removed line is blank the result is "no
\* change", and no section is a header without bullets.
C8_BlankOnly ==
    dpc = "done" =>
        /\ (NonBlank(removed) = <<>> /\ NonBlank(added) = <<>>) => summary = NoChange
        /\ summary.kind = "summary" =>
              \A sec \in Sections : SectionOf(sec) # <<>> => BulletsOf(sec) # <<>>

\* C9: with hashes.json missing or malformed a run starts with an empty `hashes`,
\* and a page it fetches for a URL, the first time the URL comes in the list, is
\* tagged NEW.
C9_LoadRecovery ==
    /\ (pc = "idle" /\ hashFile.state # "ok") =>
            ENABLED (StartRun /\ pc' = "loop" /\ hashes' = EmptyMap)
    /\ (pc = "loop" /\ startFile.state # "ok" /\ current_html.ok
            /\ \A j \in 1..(idx - 2) : urls[j] # printed.url) => printed.tag = "NEW"

\* C10: between runs, a URL that has a digest in hashes.json has a cache file,
\* and the digest of the normalized content of that file is the stored digest.
C10_StoreConsistency ==
    pc = "idle" =>
        \A u \in URLs :
            hashFile.map[u] # None =>
                /\ cache[FileName(u)].exists
                /\ get_text_content_hash(cache[FileName(u)].html) = hashFile.map[u]

\* after some runs the cache holds, for a URL, a page that is not the one the
\* latest run fetched: that one had the same digest, and the file was kept
C10_Witness ==
    /\ pc = "idle"
    /\ \E u \in URLs :
        /\ hashFile.map[u] # None
        /\ prev[u].n = "one"
        /\ cache[FileName(u)] # FileOf(prev[u].html)
    /\ \E u \in URLs : hashFile.map[u] = None

====
